---- MODULE Spec2Model ----
(***************************************************************************)
(* The retry-and-pagination execution engine of the @pinax/token-api CLI   *)
(* (bin/cli.ts): executeWithRetry, executeWithAutoPagination and the       *)
(* process-wide PQueue({concurrency: 1}) every API call goes through.      *)
(*                                                                         *)
(* One action is one turn of the JavaScript event loop: an operation being *)
(* invoked, a setTimeout timer firing, or the promise of an API call       *)
(* settling, each followed by everything the code does before it awaits    *)
(* a timer or a call again.                                                *)
(***************************************************************************)
EXTENDS Integers, Sequences, FiniteSets, TLC

\* ------------------------------------------------------------------ bounds
NumOps == 2             \* operations that may run concurrently
MaxRetriesBound == 2    \* largest maxRetries explored
MaxPages == 3           \* pages a sweep may request before the model stops it
MaxSize == 2            \* largest number of items the API puts in a page
MaxFlag == 12           \* largest number written on the command line

Ops == 1 .. NumOps

\* ------------------------------------------------------------- value model
\* limit: number | undefined. <<>> is undefined, <<n>> the number n.
Undefined == <<>>
Limits == {Undefined} \cup {<<n>> : n \in -1 .. MaxSize}

\* ------------------------------------------------------------ command line
\* A string is the sequence of its characters. An option or an environment
\* variable is given with a text, or not given.
Absent == [given |-> FALSE, text |-> <<>>]
Given(text) == [given |-> TRUE, text |-> text]

DigitChars == <<"0", "1", "2", "3", "4", "5", "6", "7", "8", "9">>
IsDigit(c) == \E i \in 1 .. Len(DigitChars) : DigitChars[i] = c
DigitValue(c) == (CHOOSE i \in 1 .. Len(DigitChars) : DigitChars[i] = c) - 1

\* String(n) for a natural number n: its decimal digits.
RECURSIVE Decimal(_)
Decimal(n) ==
    IF n < 10 THEN <<DigitChars[n + 1]>>
    ELSE Append(Decimal(n \div 10), DigitChars[(n % 10) + 1])

\* parseInt(text, 10): leading white space is skipped, a sign is read, then
\* the longest run of digits; what follows is ignored; no digit gives NaN.
RECURSIVE SkipSpace(_)
SkipSpace(text) ==
    IF text # <<>> /\ Head(text) = " " THEN SkipSpace(Tail(text)) ELSE text

RECURSIVE DigitRun(_)
DigitRun(text) ==
    IF text # <<>> /\ IsDigit(Head(text)) THEN <<Head(text)>> \o DigitRun(Tail(text))
    ELSE <<>>

RECURSIVE DigitsValue(_, _)
DigitsValue(acc, digits) ==
    IF digits = <<>> THEN acc
    ELSE DigitsValue(10 * acc + DigitValue(Head(digits)), Tail(digits))

NaN == [nan |-> TRUE, val |-> 0]
Number(n) == [nan |-> FALSE, val |-> n]

ParseInt(text) ==
    LET t == SkipSpace(text)
        signed == t # <<>> /\ Head(t) \in {"-", "+"}
        run == DigitRun(IF signed THEN Tail(t) ELSE t)
    IN  IF run = <<>> THEN NaN
        ELSE IF signed /\ Head(t) = "-" THEN Number(0 - DigitsValue(0, run))
        ELSE Number(DigitsValue(0, run))

\* x || d for a number x: NaN and 0 are falsy.
OrElse(x, d) == IF x.nan \/ x.val = 0 THEN d ELSE x.val

\* process.env.X || 'literal': an unset or empty variable gives the literal.
EnvOr(variable, literal) ==
    IF variable.given /\ variable.text # <<>> THEN variable.text ELSE literal

\* The value commander stores for an option: its argument, else its default.
OptionValue(option, default) == IF option.given THEN option.text ELSE default

DefaultMaxRetries == <<"3">>
DefaultTimeoutMs == <<"1", "0", "0", "0", "0">>
FallbackMaxRetries == 3
FallbackTimeoutMs == 10000

\* cmd.optsWithGlobals() for the command line `line` run in environment `e`.
OptsWithGlobals(line, e) ==
    [maxRetries |-> OptionValue(line.maxRetries, EnvOr(e.MAX_RETRIES, DefaultMaxRetries)),
     timeoutMs |-> OptionValue(line.timeoutMs, EnvOr(e.TIMEOUT_MS, DefaultTimeoutMs)),
     autoPaginate |-> line.autoPaginate]

\* getGlobalOptions
GetGlobalOptions(opts) ==
    [maxRetries |-> OrElse(ParseInt(opts.maxRetries), FallbackMaxRetries),
     timeoutMs |-> OrElse(ParseInt(opts.timeoutMs), FallbackTimeoutMs),
     autoPaginate |-> opts.autoPaginate]

\* The command lines and environments explored: --max-retries with a number
\* (0 and a negative one too), with text that is no number, or left out;
\* --timeout-ms likewise; --auto-paginate given or not.
NoFlags == [maxRetries |-> Absent, timeoutMs |-> Absent, autoPaginate |-> FALSE, page |-> Absent]
NoEnv == [MAX_RETRIES |-> Absent, TIMEOUT_MS |-> Absent]
RetryArgs ==
    {Given(Decimal(n)) : n \in 0 .. MaxRetriesBound}
        \cup {Given(<<"-", "1">>), Given(<<"x">>), Given(<<" ", "1", "x">>), Absent}
TimeoutArgs == {Given(Decimal(n)) : n \in {0, MaxFlag}} \cup {Given(<<>>), Absent}
CommandLines ==
    {[maxRetries |-> m, timeoutMs |-> Absent, autoPaginate |-> a, page |-> Absent] :
        m \in RetryArgs, a \in BOOLEAN}
    \cup {[maxRetries |-> Given(Decimal(1)), timeoutMs |-> t, autoPaginate |-> FALSE, page |-> Absent] :
            t \in TimeoutArgs}
\* --page <number> of a paginated command, given with a page number or left out.
PageFlags == {Absent} \cup {Given(Decimal(n)) : n \in 1 .. MaxPages}

Environments ==
    {NoEnv,
     [MAX_RETRIES |-> Given(Decimal(1)), TIMEOUT_MS |-> Given(Decimal(MaxFlag))],
     [MAX_RETRIES |-> Given(<<>>), TIMEOUT_MS |-> Given(<<>>)]}

\* GlobalOptions as executeWithRetry may be handed it (maxRetries may be
\* negative); timeoutMs is a duration the model does not measure.
Policies ==
    [maxRetries : -1 .. MaxRetriesBound, timeoutMs : {FallbackTimeoutMs}, autoPaginate : BOOLEAN]

\* An object with no fields ({}): the spread of an undefined pagination.
NoFields == [f \in {} |-> 0]

\* The i-th record of page `page`: records are opaque, told apart by identity.
Item(page, i) == <<page, i>>
PageItems(page, n) == [i \in 1 .. n |-> Item(page, i)]

\* response.data: an array, absent (undefined / null), or some other value.
ArrayData(items) == [kind |-> "array", items |-> items]
AbsentData == [kind |-> "absent", items |-> <<>>]
OtherData == [kind |-> "other", items |-> <<>>]

\* What the API may answer to a request for `page`.
DataChoices(page) ==
    {ArrayData(PageItems(page, n)) : n \in 0 .. MaxSize} \cup {AbsentData, OtherData}
MetaChoices(page) ==
    { NoFields,
      [current_page |-> page, total_pages |-> 1, total_results |-> 0],
      [current_page |-> page, total_pages |-> 7, total_results |-> 9] }
Responses(page) ==
    {[data |-> d, pagination |-> m] : d \in DataChoices(page), m \in MetaChoices(page)}

\* A sparing API: every page is empty or holds MaxSize records, no metadata.
TerseResponses(page) ==
    {[data |-> ArrayData(PageItems(page, n)), pagination |-> NoFields] : n \in {0, MaxSize}}

\* The answer of an endpoint that is not paginated (health, version, networks).
PlainResponse == [data |-> OtherData, pagination |-> NoFields]

NoResponse == [data |-> AbsentData, pagination |-> NoFields]

\* ----------------------------------------------------------- SDK wrappers
\* What `const { data, error } = await this.client.GET(...)` gives: data is
\* undefined, null or a value; error is undefined, a parsed error body, or an
\* error body that is a falsy value ('', 0, false).
DataUndefined == [kind |-> "undefined", value |-> NoResponse]
DataNull == [kind |-> "null", value |-> NoResponse]
DataOf(resp) == [kind |-> "value", value |-> resp]
ErrorUndefined == "undefined"
ErrorBody == "body"
ErrorFalsy == "falsy"

\* if (error)
JsTruthy(error) == error = ErrorBody

\* How a wrapper settles: it throws an Error with a message, or returns a value.
NoMessage == [prefix |-> "", detail |-> ""]
Throws(prefix, detail) ==
    [threw |-> TRUE, message |-> [prefix |-> prefix, detail |-> detail], value |-> NoResponse]
Returns(value) == [threw |-> FALSE, message |-> NoMessage, value |-> value]

\* Mutant of HandleResponse: missing data is returned as it is.
HandleResponse_Unchecked(data, error) ==
    IF JsTruthy(error) THEN Throws("API Error: ", error)
    ELSE Returns(data.value)

\* function handleResponse<T>(data: T | undefined | null, error: unknown): T
HandleResponse(data, error) ==
    IF JsTruthy(error) THEN Throws("API Error: ", error)
    ELSE IF data.kind \in {"undefined", "null"} THEN Throws("API Error: ", "No data returned")
    ELSE Returns(data.value)

\* The GET itself rejects (no connection), or returns { data, error }.
FetchRejected == [settled |-> "rejected", data |-> DataUndefined, error |-> ErrorUndefined]
FetchReturned(data, error) == [settled |-> "returned", data |-> data, error |-> error]

\* const { data, error } = await this.client.GET(...);
\* return handleResponse(data, error);
Wrapper(http) ==
    IF http.settled = "rejected" THEN Throws("", "fetch failed")
    ELSE HandleResponse(http.data, http.error)

\* What is kept of a settled wrapper call: what the GET gave, how the wrapper
\* settled, and whether the value it returned is the data it was given.
Settlement(http) ==
    LET out == Wrapper(http)
    IN  [settled |-> http.settled, data |-> http.data.kind, error |-> http.error,
         threw |-> out.threw, message |-> out.message,
         unchanged |-> ~out.threw /\ out.value = http.data.value]
NoSettlement ==
    [settled |-> "none", data |-> "undefined", error |-> ErrorUndefined,
     threw |-> FALSE, message |-> NoMessage, unchanged |-> FALSE]

\* Error values: 0 is null (no error recorded), GenericError the
\* 'Request failed after all retry attempts' error, k >= 1 the failure of the
\* k-th call of the current executeWithRetry invocation.
NoError == 0
GenericError == -1

\* ------------------------------------------------------------------- state
VARIABLES
    command,      \* command[o]: the CLI command operation o serves ("none": no command)
    repertoire,   \* what the API may answer: "any", "terse", or "http"
    argv,         \* the global options on the command line of this process
    env,          \* the environment variables MAX_RETRIES and TIMEOUT_MS
    options,      \* the GlobalOptions of this process
    limit,        \* limit[o]: the limit argument of operation o
    pc,           \* pc[o]: where operation o is suspended
    mode,         \* mode[o]: "single" (line 105) or "sweep" (the while loop)
    attempt,      \* attempt[o]: the for-loop counter of executeWithRetry
    lastError,    \* lastError[o]: executeWithRetry's lastError
    currentPage,  \* currentPage[o]
    allData,      \* allData[o]
    lastResponse, \* lastResponse[o]
    result,       \* result[o]: how the operation's promise settled
    queue,        \* the PQueue: pending tasks (FIFO) and running tasks
    calls,        \* history: apiCall invocations of o's current executeWithRetry
    failCount,    \* history: failed calls of o's current executeWithRetry
    fetched,      \* history: the pages the API served to o, in order
    lastServed,   \* history: the last response the API served to o
    requested,    \* history: the page numbers operation o has called apiCall with
    enqueued,     \* history: operations with an unsettled task, in queue.add order
    startedOn,    \* history: the event upon which the running task was started
    sdk,          \* history: the last SDK wrapper call that settled
    spent,        \* history: spent[o]: a page of o's sweep took every attempt allowed
    diagnostics,  \* history: what o's current executeWithRetry wrote with console.error
    waits,        \* history: delays of o's current executeWithRetry that have elapsed
    pageDelays    \* history: delays between pages of o's sweep that have elapsed

vars == <<command, repertoire, argv, env, options, limit, pc, mode, attempt, lastError, currentPage, allData,
          lastResponse, result, queue, calls, failCount, fetched, lastServed,
          requested, enqueued, startedOn, sdk, spent,
          diagnostics, waits, pageDelays>>

\* ------------------------------------------------------------------- queue
\* Mutant of Concurrency: a queue with a slot for every operation.
Concurrency_PerOp == NumOps

\* Mutant of Concurrency: a queue with no slot at all.
Concurrency_None == Cardinality({})

\* new PQueue({ concurrency: 1 })
Concurrency == 1

\* A task is the closure passed to queue.add by attempt `a` of operation o; the
\* apiCall it wraps asks for `page`.
Task(o, a, page) == [op |-> o, attempt |-> a, page |-> page, phase |-> "pending"]

\* Mutant of DelayInQueue: the first attempt waits inside the queue too.
DelayInQueue_Always(a) == a >= 0

\* Mutant of DelayInQueue: no task waits before its call.
DelayInQueue_Never(a) == FALSE

\* if (attempt > 0) await delay(timeoutMs)
DelayInQueue(a) == a > 0

\* The queue runs the closure: it waits first, or calls the API at once.
StartTask(t) == [t EXCEPT !.phase = IF DelayInQueue(t.attempt) THEN "delay" ELSE "call"]

\* PQueue starts the oldest pending task whenever a slot is free.
TryToStartAnother(q) ==
    IF Cardinality(q.running) < Concurrency /\ q.pending # <<>>
    THEN [pending |-> Tail(q.pending),
          running |-> q.running \cup {StartTask(Head(q.pending))}]
    ELSE q

\* queue.add(fn): enqueue, then start it if the queue is free.
QueueAdd(q, t) == TryToStartAnother([q EXCEPT !.pending = Append(@, t)])

\* Mutant of Submit: the closure is run at once instead of being handed to
\* the queue.
Submit_Bypass(q, t) == [q EXCEPT !.running = @ \cup {StartTask(t)}]

\* Mutant of Submit: the closure is handed to the queue twice, so a copy of
\* the task outlives the promise the caller awaits.
Submit_Twice(q, t) == QueueAdd(QueueAdd(q, t), t)

\* Mutant of Submit: a deadline: the new task takes the slot and whatever was
\* running is abandoned.
Submit_Preempt(q, t) == [q EXCEPT !.running = {StartTask(t)}]

\* const result = await queue.add(async () => { ... })
Submit(q, t) == QueueAdd(q, t)

\* A running task settled: its slot is freed and the next task starts.
TaskDone(q, t) == TryToStartAnother([q EXCEPT !.running = @ \ {t}])

\* Mutant of TaskFailed: after a rejection the queue starts nothing more.
TaskFailed_Stalls(q, t) == [q EXCEPT !.running = @ \ {t}]

\* A running task rejected: the queue finishes it as it does a fulfilled one
\* and hands the rejection to the promise queue.add returned.
TaskFailed(q, t) == TaskDone(q, t)

InFlight(q) == {t \in q.running : t.phase = "call"}

\* The event upon which the task that runs after the step from qOld to qNew
\* was started: `kind` when this step started it, "none" when none runs.
StartedOnAfter(kind, qOld, qNew) ==
    IF qNew.running = {} THEN "none"
    ELSE IF qNew.running \ qOld.running # {} THEN kind
    ELSE startedOn

\* The apiCall invocations made by the step from qOld to qNew, counted per
\* operation on top of `base`, and the pages they ask for.
NewCalls(qOld, qNew) == InFlight(qNew) \ InFlight(qOld)
CallsAfter(base, qOld, qNew) ==
    [o \in Ops |-> base[o] + Cardinality({t \in NewCalls(qOld, qNew) : t.op = o})]
RequestedAfter(qOld, qNew) ==
    [o \in Ops |-> requested[o] \cup {t.page : t \in {u \in NewCalls(qOld, qNew) : u.op = o}}]

Without(seq, o) == SelectSeq(seq, LAMBDA x : x # o)

\* -------------------------------------------------------- executeWithRetry
\* Mutants of LoopCond: one attempt too few, one attempt too many.
LoopCond_Strict(a, maxRetries) == a < maxRetries
LoopCond_Extra(a, maxRetries) == a <= maxRetries + 1

\* Mutant of LoopStart: the counter goes on from where it was left.
LoopStart_Carry(prev) == prev

\* let attempt = 0: every executeWithRetry invocation counts from 0, whatever
\* an earlier invocation counted.
LoopStart(prev) == 0

\* for (let attempt = 0; attempt <= maxRetries; attempt++)
LoopCond(a, maxRetries) == a <= maxRetries

\* Mutant of Diagnostic: attempts are numbered from 0, out of maxRetries.
Diagnostic_ZeroBased(a, maxRetries) == [attempt |-> a, of |-> maxRetries]

\* console.error(`Request failed (attempt ${attempt + 1}/${maxRetries + 1}): ...`)
Diagnostic(a, maxRetries) == [attempt |-> a + 1, of |-> maxRetries + 1]

\* No delay(timeoutMs) of an executeWithRetry invocation has elapsed yet:
\* neither the one in its catch block (outside the queue) nor the one in a
\* queued retry task (inside).
NoWaits == [outside |-> 0, inside |-> 0]

\* Mutant of AttemptsRemain: the last failure is announced and waited on too.
AttemptsRemain_Always(a, maxRetries) == a <= maxRetries

\* if (attempt < maxRetries) { console.error(...); await delay(timeoutMs); }
AttemptsRemain(a, maxRetries) == a < maxRetries

\* Mutant of Recorded: the first failure is kept, later ones are dropped.
Recorded_First(prev, e) == IF prev # NoError THEN prev ELSE e

\* lastError = error instanceof Error ? error : new Error(String(error)):
\* the failure just caught replaces the one recorded before it.
Recorded(prev, e) == e

\* Mutant of Thrown: a new generic error is thrown, the recorded one dropped.
Thrown_Generic(e) == GenericError

\* throw lastError || new Error('Request failed after all retry attempts')
Thrown(e) == IF e # NoError THEN e ELSE GenericError

\* The message of an error, as the parts it is made of: the message of the
\* k-th call's failure is one part, opaque, that names its failure; the message
\* of the generic error is its literal text and names no failure.
ExhaustionText == "Request failed after all retry attempts"
UnderlyingMessage(k) == <<[text |-> "underlying", of |-> k]>>
ErrorMessage(e) ==
    IF e = GenericError THEN <<[text |-> ExhaustionText, of |-> NoError]>>
    ELSE UnderlyingMessage(e)

Resolution(resp) == [status |-> "resolved", value |-> resp, error |-> NoError]
Rejection(e) == [status |-> "rejected", value |-> NoResponse, error |-> e]
Pending == [status |-> "pending", value |-> NoResponse, error |-> NoError]

\* ----------------------------------------------- executeWithAutoPagination
\* !limit: undefined and 0 are falsy, every other number is truthy.
Truthy(lim) == lim # Undefined /\ lim[1] # 0

\* Mutant of PaginationDisabled: the --auto-paginate flag is not looked at.
PaginationDisabled_IgnoresFlag(autoPaginate, lim) == ~Truthy(lim)

\* if (!autoPaginate || !limit)
PaginationDisabled(autoPaginate, lim) == ~autoPaginate \/ ~Truthy(lim)

\* Mutant of HasArrayData: whatever the page holds is taken for an array.
HasArrayData_Always(resp) == TRUE

\* Mutant of HasArrayData: the sweep looks at the reported total_pages and
\* takes a page at or past it for the end of data.
HasArrayData_WithinTotal(resp) ==
    /\ resp.data.kind = "array"
    /\ "total_pages" \in DOMAIN resp.pagination =>
           resp.pagination.current_page < resp.pagination.total_pages

\* if (result.data && Array.isArray(result.data))
HasArrayData(resp) == resp.data.kind = "array"

\* Mutant of Push: the page is put in front of what was accumulated.
Push_Prepend(all, items) == items \o all

\* Mutant of Push: the page is appended twice.
Push_Twice(all, items) == all \o items \o items

\* allData.push(...result.data)
Push(all, items) == all \o items

\* Mutant of LastPage: a page of exactly limit items ends the sweep too.
LastPage_Inclusive(items, lim) == Len(items) <= lim[1]

\* Mutant of LastPage: no page is short enough to end the sweep.
LastPage_Never(items, lim) == FALSE

\* if (result.data.length < limit) break;
LastPage(items, lim) == Len(items) < lim[1]

\* Mutant of Aggregate: the page's metadata is spread after the two overrides.
Aggregate_SpreadLast(last, all) ==
    [data |-> ArrayData(all),
     pagination |-> last.pagination @@ [current_page |-> 1, total_results |-> Len(all)]]

\* { ...lastResponse, data: allData,
\*   pagination: { ...lastResponse?.pagination, current_page: 1,
\*                 total_results: allData.length } }
Aggregate(last, all) ==
    [data |-> ArrayData(all),
     pagination |-> [current_page |-> 1, total_results |-> Len(all)] @@ last.pagination]

\* Mutant of SweepThrows: the loop catches the error and returns what it has.
SweepCatches(e, last, all) == Resolution(Aggregate(last, all))

\* const result = await executeWithRetry(...) stands in no try block: what
\* executeWithRetry throws rejects the sweep, whatever it has accumulated.
SweepThrows(e, last, all) == Rejection(e)

\* Mutant of NextPage: a page is skipped.
NextPage_Skip(page) == page + 2

\* currentPage++
NextPage(page) == page + 1

\* The page the closure given to executeWithRetry asks apiCall for: apiCall(1),
\* apiCall(currentPage), or none (0) for an endpoint that takes no page.
PageArgOf(m, page) ==
    IF m = "direct" THEN 0
    ELSE IF m = "single" THEN 1
    ELSE page
PageArg(o) == PageArgOf(mode[o], currentPage[o])

\* page: options.page ?? page, options.page being parseInt of --page's
\* argument, undefined when the option is not given.
QueryPage(flag, page) == IF flag.given THEN ParseInt(flag.text).val ELSE page

\* The page parameter of the request apiCall(page) sends; the endpoints called
\* through executeWithRetry alone have none (0).
Query(m, page) == IF m = "direct" THEN page ELSE QueryPage(argv.page, page)

\* What the API may answer to the call of task t.
ApiResponses(t) ==
    IF t.page = 0 THEN {PlainResponse}
    ELSE IF repertoire = "terse" THEN TerseResponses(t.page)
    ELSE IF repertoire = "http" THEN TerseResponses(t.page) \cup {NoResponse}
    ELSE Responses(t.page)


\* What the GET of task t's call may give. On a 2xx answer data is the body
\* (null for a body of null, undefined for an empty one) and error is
\* undefined; otherwise data is undefined and error is the body, which may be
\* a falsy value; handleResponse is also handed an error together with data.
\* Unless the HTTP layer is what is explored (repertoire "http"), a call is
\* answered with a body or the connection fails.
HttpResults(t) ==
    {FetchReturned(DataOf(resp), ErrorUndefined) : resp \in ApiResponses(t)}
        \cup {FetchRejected}
        \cup IF repertoire # "http" THEN {}
             ELSE {FetchReturned(d, ErrorUndefined) : d \in {DataUndefined, DataNull}}
                      \cup {FetchReturned(DataUndefined, e) : e \in {ErrorBody, ErrorFalsy}}
                      \cup {FetchReturned(DataOf(PlainResponse), ErrorBody)}

\* The record of wrapper calls is kept where the HTTP layer is what is
\* explored, and left empty elsewhere.
Observed(http) == IF repertoire = "http" THEN Settlement(http) ELSE NoSettlement

\* The limits a command is run with: where the API is sparing, no limit or
\* that of a full page.
LimitChoices == IF repertoire = "terse" THEN {Undefined, <<MaxSize>>} ELSE Limits

\* The head of the for loop, reached with attempt = a and lastError = e while
\* the queue is q: either the attempt is handed to the queue and awaited, or
\* the loop is over and executeWithRetry throws, which rejects the operation
\* (executeWithAutoPagination catches nothing).
ForLoop(o, a, e, q, enq, m, page) ==
    /\ attempt' = [attempt EXCEPT ![o] = a]
    /\ lastError' = [lastError EXCEPT ![o] = e]
    /\ IF LoopCond(a, options.maxRetries)
       THEN /\ queue' = Submit(q, Task(o, a, Query(m, page)))
            /\ enqueued' = Append(enq, o)
            /\ pc' = [pc EXCEPT ![o] = "await"]
            /\ result' = result
       ELSE /\ queue' = q
            /\ enqueued' = enq
            /\ pc' = [pc EXCEPT ![o] = "rejected"]
            /\ result' = [result EXCEPT ![o] =
                            IF m = "sweep"
                            THEN SweepThrows(Thrown(e), lastResponse[o], allData[o])
                            ELSE Rejection(Thrown(e))]

\* -------------------------------------------------------------------- Init
InitRun ==
    /\ limit = [o \in Ops |-> Undefined]
    /\ pc = [o \in Ops |-> "idle"]
    /\ mode = [o \in Ops |-> "single"]
    /\ attempt = [o \in Ops |-> 0]
    /\ lastError = [o \in Ops |-> NoError]
    /\ currentPage = [o \in Ops |-> 1]
    /\ allData = [o \in Ops |-> <<>>]
    /\ lastResponse = [o \in Ops |-> NoResponse]
    /\ result = [o \in Ops |-> Pending]
    /\ queue = [pending |-> <<>>, running |-> {}]
    /\ calls = [o \in Ops |-> 0]
    /\ failCount = [o \in Ops |-> 0]
    /\ fetched = [o \in Ops |-> <<>>]
    /\ lastServed = [o \in Ops |-> NoResponse]
    /\ requested = [o \in Ops |-> {}]
    /\ enqueued = <<>>
    /\ startedOn = "none"
    /\ sdk = NoSettlement
    /\ spent = [o \in Ops |-> FALSE]
    /\ diagnostics = [o \in Ops |-> <<>>]
    /\ waits = [o \in Ops |-> NoWaits]
    /\ pageDelays = [o \in Ops |-> 0]

\* executeWithRetry and executeWithAutoPagination under every policy they may
\* be handed, whether or not a command line yields it.
InitOps ==
    /\ argv = NoFlags
    /\ env = NoEnv
    /\ options \in Policies
    /\ InitRun

\* One command per process, as the CLI runs it, against an API that may answer
\* anything.
Init ==
    /\ command \in {[o \in Ops |-> IF o = 1 THEN c ELSE "none"] : c \in {"transfers", "health"}}
    /\ repertoire = "any"
    /\ InitOps

\* One command per process, against an HTTP layer that may give anything.
InitSdk ==
    /\ command \in {[o \in Ops |-> IF o = 1 THEN c ELSE "none"] : c \in {"transfers", "health"}}
    /\ repertoire = "http"
    /\ InitOps

\* Several operations sharing the queue: one paginated command and plain ones.
InitQ ==
    /\ command = [o \in Ops |-> IF o = 1 THEN "transfers" ELSE "health"]
    /\ repertoire = "terse"
    /\ InitOps

\* The program run from a command line: the policy is what getGlobalOptions
\* makes of the parsed options.
InitCli ==
    /\ command \in {[o \in Ops |-> IF o = 1 THEN c ELSE "none"] : c \in {"transfers", "health"}}
    /\ repertoire = "terse"
    /\ \E run \in (CommandLines \X {NoEnv}) \cup ({NoFlags} \X Environments) :
           argv = run[1] /\ env = run[2]
    /\ options = GetGlobalOptions(OptsWithGlobals(argv, env))
    /\ InitRun

\* One paginated command run with or without --page, under every policy.
InitPage ==
    /\ command \in {[o \in Ops |-> IF o = 1 THEN c ELSE "none"] : c \in {"transfers", "health"}}
    /\ repertoire = "terse"
    /\ argv \in {[NoFlags EXCEPT !.page = f] : f \in PageFlags}
    /\ env = NoEnv
    /\ options \in Policies
    /\ InitRun

\* ----------------------------------------------------------------- actions
\* A command handler calls executeWithAutoPagination(apiCall, globalOptions, lim).
Invoke(o, lim) ==
    /\ pc[o] = "idle"
    /\ command[o] = "transfers"
    /\ lim \in LimitChoices
    /\ limit' = [limit EXCEPT ![o] = lim]
    /\ mode' = [mode EXCEPT ![o] =
                  IF PaginationDisabled(options.autoPaginate, lim) THEN "single" ELSE "sweep"]
    /\ ForLoop(o, LoopStart(attempt[o]), NoError, queue, enqueued, mode'[o], PageArgOf(mode'[o], 1))
    /\ calls' = CallsAfter([calls EXCEPT ![o] = 0], queue, queue')
    /\ requested' = RequestedAfter(queue, queue')
    /\ startedOn' = StartedOnAfter("add", queue, queue')
    /\ UNCHANGED <<command, repertoire, diagnostics, waits, pageDelays, spent, sdk, argv, env, options, currentPage, allData, lastResponse,
                   failCount, fetched, lastServed>>

\* A command handler calls executeWithRetry(() => client.getHealth(), globalOptions).
InvokeRetry(o) ==
    /\ pc[o] = "idle"
    /\ command[o] = "health"
    /\ mode' = [mode EXCEPT ![o] = "direct"]
    /\ ForLoop(o, LoopStart(attempt[o]), NoError, queue, enqueued, "direct", PageArgOf("direct", 1))
    /\ calls' = CallsAfter([calls EXCEPT ![o] = 0], queue, queue')
    /\ requested' = RequestedAfter(queue, queue')
    /\ startedOn' = StartedOnAfter("add", queue, queue')
    /\ UNCHANGED <<command, repertoire, diagnostics, waits, pageDelays, spent, sdk, argv, env, options, limit, currentPage, allData,
                   lastResponse, failCount, fetched, lastServed>>

\* The timer of the delay inside a queued retry task fires: apiCall() is invoked.
TaskDelayFires(t) ==
    /\ t \in queue.running
    /\ t.phase = "delay"
    /\ queue' = [queue EXCEPT !.running = (@ \ {t}) \cup {[t EXCEPT !.phase = "call"]}]
    /\ waits' = [waits EXCEPT ![t.op].inside = @ + 1]
    /\ calls' = CallsAfter(calls, queue, queue')
    /\ requested' = RequestedAfter(queue, queue')
    /\ UNCHANGED <<command, repertoire, diagnostics, pageDelays, spent, sdk, argv, env, options, limit, pc, mode, attempt, lastError, currentPage, allData,
                   lastResponse, result, failCount, fetched, lastServed, enqueued, startedOn>>

\* The API call of task t rejects: the catch block of executeWithRetry.
CallFails(t) ==
    LET o == t.op
        q0 == [queue EXCEPT !.running = @ \ {t}]
        q1 == TaskFailed(queue, t)
        enq1 == Without(enqueued, o)
        e == Recorded(lastError[o], calls[o])
    IN  /\ t \in InFlight(queue)
        /\ \E http \in HttpResults(t) : Wrapper(http).threw /\ sdk' = Observed(http)
        /\ failCount' = [failCount EXCEPT ![o] = @ + 1]
        /\ diagnostics' = [diagnostics EXCEPT ![o] =
                              IF AttemptsRemain(attempt[o], options.maxRetries)
                              THEN Append(@, Diagnostic(attempt[o], options.maxRetries))
                              ELSE @]
        /\ IF AttemptsRemain(attempt[o], options.maxRetries)
           THEN /\ pc' = [pc EXCEPT ![o] = "backoff"]
                /\ lastError' = [lastError EXCEPT ![o] = e]
                /\ queue' = q1
                /\ enqueued' = enq1
                /\ UNCHANGED <<attempt, result>>
           ELSE ForLoop(o, attempt[o] + 1, e, q1, enq1, mode[o], PageArg(o))
        /\ calls' = CallsAfter(calls, q0, queue')
        /\ requested' = RequestedAfter(q0, queue')
        /\ startedOn' = StartedOnAfter("rejection", q0, queue')
        /\ UNCHANGED <<command, repertoire, waits, pageDelays, spent, argv, env, options, limit, mode, currentPage, allData, lastResponse,
                       fetched, lastServed>>

\* The timer of the delay in the catch block fires: attempt++ and loop.
BackoffFires(o) ==
    /\ pc[o] = "backoff"
    /\ waits' = [waits EXCEPT ![o].outside = @ + 1]
    /\ ForLoop(o, attempt[o] + 1, lastError[o], queue, enqueued, mode[o], PageArg(o))
    /\ calls' = CallsAfter(calls, queue, queue')
    /\ requested' = RequestedAfter(queue, queue')
    /\ startedOn' = StartedOnAfter("add", queue, queue')
    /\ UNCHANGED <<command, repertoire, diagnostics, pageDelays, spent, sdk, argv, env, options, limit, mode, currentPage, allData, lastResponse,
                   failCount, fetched, lastServed>>

\* The API call of task t resolves with resp: executeWithRetry returns it, and
\* executeWithAutoPagination returns it (line 105) or goes on in its loop body.
CallSucceeds(t, resp) ==
    LET o == t.op
        q0 == [queue EXCEPT !.running = @ \ {t}]
        q1 == TaskDone(queue, t)
        all1 == IF HasArrayData(resp) THEN Push(allData[o], resp.data.items)
                ELSE allData[o]
    IN  /\ t \in InFlight(queue)
        /\ resp \in ApiResponses(t)
        /\ \E http \in HttpResults(t) :
               /\ ~Wrapper(http).threw
               /\ Wrapper(http).value = resp
               /\ sdk' = Observed(http)
        /\ queue' = q1
        /\ enqueued' = Without(enqueued, o)
        /\ calls' = CallsAfter(calls, q0, q1)
        /\ requested' = RequestedAfter(q0, q1)
        /\ startedOn' = StartedOnAfter("fulfilment", q0, q1)
        /\ fetched' = [fetched EXCEPT ![o] = Append(@, [page |-> t.page, data |-> resp.data])]
        /\ lastServed' = [lastServed EXCEPT ![o] = resp]
        /\ spent' = [spent EXCEPT ![o] =
                        @ \/ (mode[o] = "sweep" /\ calls[o] = options.maxRetries + 1)]
        /\ IF mode[o] # "sweep"
           THEN /\ pc' = [pc EXCEPT ![o] = "resolved"]
                /\ result' = [result EXCEPT ![o] = Resolution(resp)]
                /\ UNCHANGED <<allData, lastResponse>>
           ELSE /\ lastResponse' = [lastResponse EXCEPT ![o] = resp]
                /\ allData' = [allData EXCEPT ![o] = all1]
                /\ IF HasArrayData(resp) /\ ~LastPage(resp.data.items, limit[o])
                   THEN /\ pc' = [pc EXCEPT ![o] = "pagedelay"]
                        /\ result' = result
                   ELSE /\ pc' = [pc EXCEPT ![o] = "resolved"]
                        /\ result' = [result EXCEPT ![o] = Resolution(Aggregate(resp, all1))]
        /\ UNCHANGED <<command, repertoire, diagnostics, waits, pageDelays, argv, env, options, limit, mode, attempt, lastError, currentPage, failCount>>

\* The timer of the delay between pages fires: currentPage++ and the next
\* executeWithRetry begins.
PageDelayFires(o) ==
    /\ pc[o] = "pagedelay"
    /\ currentPage[o] < MaxPages
    /\ currentPage' = [currentPage EXCEPT ![o] = NextPage(@)]
    /\ failCount' = [failCount EXCEPT ![o] = 0]
    /\ pageDelays' = [pageDelays EXCEPT ![o] = @ + 1]
    /\ diagnostics' = [diagnostics EXCEPT ![o] = <<>>]
    /\ waits' = [waits EXCEPT ![o] = NoWaits]
    /\ ForLoop(o, LoopStart(attempt[o]), NoError, queue, enqueued, mode[o],
               PageArgOf(mode[o], currentPage'[o]))
    /\ calls' = CallsAfter([calls EXCEPT ![o] = 0], queue, queue')
    /\ requested' = RequestedAfter(queue, queue')
    /\ startedOn' = StartedOnAfter("add", queue, queue')
    /\ UNCHANGED <<command, repertoire, spent, sdk, argv, env, options, limit, mode, allData, lastResponse, fetched, lastServed>>

Next ==
    \/ \E o \in Ops, lim \in Limits : Invoke(o, lim)
    \/ \E o \in Ops : InvokeRetry(o)
    \/ \E t \in queue.running : TaskDelayFires(t)
    \/ \E t \in queue.running : CallFails(t)
    \/ \E o \in Ops : BackoffFires(o)
    \/ \E t \in queue.running : \E resp \in ApiResponses(t) : CallSucceeds(t, resp)
    \/ \E o \in Ops : PageDelayFires(o)

Spec == Init /\ [][Next]_vars

SpecQ == InitQ /\ [][Next]_vars

SpecCli == InitCli /\ [][Next]_vars

SpecSdk == InitSdk /\ [][Next]_vars

SpecPage == InitPage /\ [][Next]_vars

\* A call that was started settles, and the timer a running task waits for
\* fires (setTimeout); nothing is assumed of the operations' own timers.
Settles == \E t \in queue.running : CallFails(t) \/ \E resp \in ApiResponses(t) : CallSucceeds(t, resp)
TimerInTaskFires == \E t \in queue.running : TaskDelayFires(t)
SpecQFair == SpecQ /\ WF_vars(Settles) /\ WF_vars(TimerInTaskFires)

\* The timers an operation itself waits for fire too (the delay in the catch
\* block, the delay between pages). One command per process: as long as a
\* call is unsettled or a setTimeout timer is pending, one of them completes.
OwnTimerFires == \E o \in Ops : BackoffFires(o) \/ PageDelayFires(o)
Progress == Settles \/ TimerInTaskFires \/ OwnTimerFires

\* The sweeps whose progress is checked: every policy but the one with the
\* most retries, which adds attempts per page and no new way to end.
InitFair == Init /\ options.maxRetries < MaxRetriesBound
SpecFair == InitFair /\ [][Next]_vars /\ WF_vars(Progress)

\* ------------------------------------------------------------------ claims
TasksOf(o) ==
    {t \in queue.running : t.op = o} \cup
    {queue.pending[i] : i \in {j \in 1 .. Len(queue.pending) : queue.pending[j].op = o}}

\* C1: with maxRetries = n >= 0, an executeWithRetry whose call fails every
\* time invokes it exactly n + 1 times and then rejects (never more than
\* n + 1 calls, no rejection before the (n+1)-th failure, rejection at the
\* (n+1)-th failure); with n = 0 no delay is ever waited, in or out of the queue.
C1_RetryBound ==
    \A o \in Ops :
        options.maxRetries >= 0 =>
            /\ calls[o] <= options.maxRetries + 1
            /\ pc[o] = "rejected" =>
                   calls[o] = options.maxRetries + 1 /\ failCount[o] = options.maxRetries + 1
            /\ failCount[o] = options.maxRetries + 1 => pc[o] = "rejected"
            /\ options.maxRetries = 0 =>
                   pc[o] # "backoff" /\ \A t \in TasksOf(o) : t.phase # "delay"

C1_Witness ==
    \E o \in Ops :
        /\ pc[o] = "rejected"
        /\ options.maxRetries = MaxRetriesBound
        /\ calls[o] = MaxRetriesBound + 1

\* C2: with maxRetries = n >= 0, an executeWithRetry whose call fails k < n + 1
\* times and then succeeds returns that success value after exactly k + 1
\* calls: a return comes with calls = failures + 1 and failures <= n, the value
\* returned is the one the API served, nothing of the invocation is left in the
\* queue, and no rejection comes while fewer than n + 1 calls have failed.
Returned(o) == pc[o] \in {"resolved", "pagedelay"}

C2_SuccessShortCircuits ==
    \A o \in Ops :
        options.maxRetries >= 0 =>
            /\ Returned(o) =>
                   /\ calls[o] = failCount[o] + 1
                   /\ failCount[o] <= options.maxRetries
                   /\ TasksOf(o) = {}
                   /\ IF mode[o] = "sweep" THEN lastResponse[o] = lastServed[o]
                      ELSE result[o] = Resolution(lastServed[o])
            /\ pc[o] \in {"await", "backoff"} =>
                   calls[o] = failCount[o] + Cardinality({t \in InFlight(queue) : t.op = o})
            /\ pc[o] = "rejected" => failCount[o] > options.maxRetries

C2_Witness ==
    \E o \in Ops :
        /\ pc[o] = "resolved"
        /\ mode[o] # "sweep"
        /\ options.maxRetries = MaxRetriesBound
        /\ failCount[o] = MaxRetriesBound
        /\ calls[o] = MaxRetriesBound + 1

\* C3: at most one API call submitted through the queue is in flight, however
\* many operations are running.
C3_OneInFlight == Cardinality(InFlight(queue)) <= 1

C3_Witness ==
    /\ Cardinality(InFlight(queue)) = 1
    /\ queue.pending # <<>>

Sweeping(o) == pc[o] # "idle" /\ mode[o] = "sweep"
IsArray(pg) == pg.data.kind = "array"
SizeOf(pg) == Len(pg.data.items)

RECURSIVE Flatten(_)
Flatten(pages) ==
    IF pages = <<>> THEN <<>> ELSE pages[1].data.items \o Flatten(Tail(pages))

RECURSIVE SumSizes(_)
SumSizes(pages) ==
    IF pages = <<>> THEN 0 ELSE SizeOf(pages[1]) + SumSizes(Tail(pages))

\* C5: in a sweep with a positive limit L, pages are served in order 1, 2, ...;
\* a page of fewer than L items (an empty one too) is the last one served and
\* the sweep is over with it, no later page being asked for; a page of exactly
\* L items never ends the sweep: the next page has been served, is being
\* fetched, or is waited for; so sizes [L, L, s < L] mean exactly 3 fetches.
C5_ShortPageStops ==
    \A o \in Ops :
        (Sweeping(o) /\ limit[o] # Undefined /\ limit[o][1] > 0) =>
            LET L == limit[o][1]
                n == Len(fetched[o])
            IN  \A i \in 1 .. n :
                    LET pg == fetched[o][i] IN
                    /\ pg.page = i
                    /\ (IsArray(pg) /\ SizeOf(pg) < L) =>
                           /\ i = n
                           /\ pc[o] = "resolved"
                           /\ requested[o] = 1 .. i
                    /\ (IsArray(pg) /\ SizeOf(pg) = L) =>
                           \/ i < n
                           \/ pc[o] = "pagedelay" /\ currentPage[o] = i
                           \/ pc[o] \in {"await", "backoff", "rejected"} /\ currentPage[o] = i + 1

C5_Witness ==
    \E o \in Ops :
        /\ Sweeping(o)
        /\ pc[o] = "resolved"
        /\ limit[o] = <<MaxSize>>
        /\ Len(fetched[o]) = 3
        /\ SizeOf(fetched[o][1]) = MaxSize
        /\ SizeOf(fetched[o][2]) = MaxSize
        /\ IsArray(fetched[o][3]) /\ SizeOf(fetched[o][3]) < MaxSize

\* C6: the data of a completed sweep's result is the concatenation, in the
\* order the pages were served, of every served page's items, each page's
\* items in their order; its length is the sum of the page sizes.
C6_Concatenation ==
    \A o \in Ops :
        (Sweeping(o) /\ pc[o] = "resolved") =>
            /\ result[o].status = "resolved"
            /\ result[o].value.data = ArrayData(Flatten(fetched[o]))
            /\ Len(result[o].value.data.items) = SumSizes(fetched[o])

C6_Witness ==
    \E o \in Ops :
        /\ Sweeping(o)
        /\ pc[o] = "resolved"
        /\ Len(fetched[o]) = 3
        /\ SizeOf(fetched[o][1]) >= 2
        /\ SizeOf(fetched[o][3]) >= 1
        /\ result[o].value.data.items[1] = Item(1, 1)
        /\ result[o].value.data.items[2] = Item(1, 2)

\* C7: the pagination of a completed sweep's result has current_page = 1 and
\* total_results = the number of aggregated items, whatever the pages
\* reported; it has every other field of the last served page's pagination,
\* with that page's value, and no further field.
Forced == {"current_page", "total_results"}

C7_Pagination ==
    \A o \in Ops :
        (Sweeping(o) /\ pc[o] = "resolved") =>
            LET pg == result[o].value.pagination
                last == lastServed[o].pagination
            IN  /\ DOMAIN pg = Forced \cup DOMAIN last
                /\ pg.current_page = 1
                /\ pg.total_results = Len(result[o].value.data.items)
                /\ pg.total_results = SumSizes(fetched[o])
                /\ \A f \in DOMAIN last \ Forced : pg[f] = last[f]

C7_Witness ==
    \E o \in Ops :
        /\ Sweeping(o)
        /\ pc[o] = "resolved"
        /\ Len(fetched[o]) = 2
        /\ lastServed[o].pagination = [current_page |-> 2, total_pages |-> 7, total_results |-> 9]
        /\ result[o].value.pagination = [current_page |-> 1, total_pages |-> 7, total_results |-> 3]

\* C8: when autoPaginate is false or limit is undefined, only page 1 is ever
\* asked for, whatever page 1 holds, no pagination delay is waited, and the
\* operation resolves with the response to that call, unmodified.
C8_PaginationOff ==
    \A o \in Ops :
        (command[o] = "transfers" /\ pc[o] # "idle"
            /\ (~options.autoPaginate \/ limit[o] = Undefined)) =>
            /\ requested[o] \subseteq {1}
            /\ pc[o] # "pagedelay"
            /\ Len(fetched[o]) <= 1
            /\ pc[o] = "resolved" =>
                   /\ Len(fetched[o]) = 1
                   /\ result[o] = Resolution(lastServed[o])
                   /\ result[o].value.data = fetched[o][1].data

C8_Witness ==
    \E o \in Ops :
        /\ command[o] = "transfers"
        /\ pc[o] = "resolved"
        /\ ~options.autoPaginate
        /\ limit[o] = <<1>>
        /\ SizeOf(fetched[o][1]) = MaxSize
        /\ lastServed[o].pagination # NoFields

\* C9: with autoPaginate = true and any limit <= 0, only the single retried
\* fetch of page 1 is made: page 2 is never asked for and no pagination delay
\* is waited.
C9_NonPositiveLimit ==
    \A o \in Ops :
        (command[o] = "transfers" /\ pc[o] # "idle" /\ options.autoPaginate
            /\ limit[o] # Undefined /\ limit[o][1] <= 0) =>
            /\ requested[o] \subseteq {1}
            /\ pc[o] # "pagedelay"

\* C10: when a page p of a sweep has failed on all its maxRetries + 1
\* attempts, the sweep is rejected with that failure and with none of the items
\* of pages 1..p-1, nothing of it is left in the queue, no page after p was
\* asked for, and a rejected sweep asks for nothing and settles nothing more.
C10_Aborted(o) ==
    /\ pc[o] = "rejected"
    /\ result[o] = Rejection(lastError[o])
    /\ lastError[o] = options.maxRetries + 1
    /\ TasksOf(o) = {}
    /\ requested[o] = 1 .. currentPage[o]
    /\ Len(fetched[o]) = currentPage[o] - 1

C10_SweepAborts ==
    /\ [](\A o \in Ops :
            (Sweeping(o) /\ options.maxRetries >= 0
                /\ failCount[o] = options.maxRetries + 1) => C10_Aborted(o))
    /\ [][\A o \in Ops :
            (Sweeping(o) /\ pc[o] = "rejected") =>
                UNCHANGED <<pc[o], result[o], requested[o], fetched[o], calls[o]>>]_vars

C10_Witness ==
    \E o \in Ops :
        /\ Sweeping(o)
        /\ pc[o] = "rejected"
        /\ options.maxRetries = MaxRetriesBound
        /\ currentPage[o] = 3
        /\ Len(allData[o]) >= 2
        /\ result[o].status = "rejected"

\* The failures of operation o's executeWithRetry are numbered 1, 2, ... in
\* the order of its calls: the last one is the failure of call number calls[o].
Exhausted(o) == pc[o] = "rejected" /\ options.maxRetries >= 0
MentionsExhaustion(msg) == \E i \in 1 .. Len(msg) : msg[i].text = ExhaustionText
Contains(msg, part) == \E i \in 1 .. Len(msg) : <<msg[i]>> = part

C19_LastFailureReported ==
    \A o \in Ops :
        /\ Exhausted(o) =>
               /\ result[o].error = options.maxRetries + 1
               /\ result[o].error \notin 1 .. options.maxRetries
               /\ lastError[o] = result[o].error
        /\ pc[o] = "backoff" => lastError[o] = failCount[o] /\ lastError[o] = attempt[o] + 1

C19_Witness ==
    \E o \in Ops :
        /\ pc[o] = "rejected"
        /\ options.maxRetries = MaxRetriesBound
        /\ failCount[o] = MaxRetriesBound + 1
        /\ result[o] = Rejection(MaxRetriesBound + 1)

\* C12: a queued task that rejects neither blocks nor cancels the tasks queued
\* after it: the step in which a call fails starts the oldest waiting task and
\* changes nothing of any other operation; no task waits while the slot is
\* free; an awaited task is never dropped; and every operation settles with its
\* own outcome (the response served to it, or its own last failure).
C12_RejectionIsolated ==
    /\ [](queue.running = {} => queue.pending = <<>>)
    /\ [](\A o \in Ops :
            /\ pc[o] = "await" => Cardinality(TasksOf(o)) = 1
            /\ (pc[o] = "resolved" /\ mode[o] = "direct") =>
                   result[o] = Resolution(lastServed[o])
            /\ Exhausted(o) => result[o] = Rejection(calls[o]))
    /\ [][\A t \in InFlight(queue) :
            failCount'[t.op] = failCount[t.op] + 1 =>
                /\ queue.pending # <<>> =>
                       /\ queue'.running = {StartTask(Head(queue.pending))}
                       /\ queue'.pending = Tail(queue.pending)
                /\ \A b \in Ops \ {t.op} :
                       UNCHANGED <<pc[b], result[b], failCount[b], lastError[b]>>]_vars

C12_Witness ==
    \E t \in InFlight(queue) :
        /\ startedOn = "rejection"
        /\ t.attempt = 0
        /\ pc[t.op] = "await"
        /\ \E a \in Ops \ {t.op} : failCount[a] >= 1 /\ pc[a] = "backoff"

\* C13: if every started call eventually settles, every task handed to the
\* queue eventually starts: a task leaves the waiting list only by being
\* started, and whenever tasks wait, a moment comes at which none waits.
Waiting(o) == \E i \in 1 .. Len(queue.pending) : queue.pending[i].op = o
Running(o) == \E t \in queue.running : t.op = o

C13_EveryTaskStarts ==
    /\ (queue.pending # <<>>) ~> (queue.pending = <<>>)
    /\ [][\A o \in Ops : (Waiting(o) /\ ~Waiting(o)') => Running(o)']_vars

C13_Witness ==
    \E t \in queue.running :
        /\ startedOn = "fulfilment"
        /\ t.attempt > 0
        /\ pc[t.op] = "await"
        /\ \E a \in Ops \ {t.op} : pc[a] = "resolved"

\* C14: the policy read from the command line has maxRetries = n for every
\* non-negative integer n passed as --max-retries and timeoutMs = m for every
\* non-negative integer m passed as --timeout-ms, 3 and 10000 when the option
\* is left out (and the environment sets no default), and autoPaginate = TRUE
\* exactly when --auto-paginate is given.
C14_PolicyFromCommandLine ==
    /\ \A n \in 0 .. MaxFlag :
           /\ argv.maxRetries = Given(Decimal(n)) => options.maxRetries = n
           /\ argv.timeoutMs = Given(Decimal(n)) => options.timeoutMs = n
    /\ (argv.maxRetries = Absent /\ env = NoEnv) => options.maxRetries = FallbackMaxRetries
    /\ (argv.timeoutMs = Absent /\ env = NoEnv) => options.timeoutMs = FallbackTimeoutMs
    /\ options.autoPaginate = argv.autoPaginate

\* C18: for every policy the command line can produce (a negative maxRetries
\* too), executeWithRetry invokes the call at least once before it rejects, so
\* the generic 'Request failed after all retry attempts' error is never the
\* one an operation rejects with.
C18_AtLeastOneCall ==
    \A o \in Ops :
        pc[o] = "rejected" =>
            /\ calls[o] >= 1
            /\ result[o].error # GenericError
            /\ ErrorMessage(result[o].error) # ErrorMessage(GenericError)

\* C15: a wrapper whose GET returned { data, error } settles as handleResponse
\* does: it rejects with an 'API Error' whenever an error is reported, data or
\* no data; it rejects with 'API Error: No data returned' when no error is
\* reported and data is null or undefined; otherwise it returns the data
\* unchanged.
C15_HandleResponse ==
    sdk.settled = "returned" =>
        /\ sdk.error # ErrorUndefined =>
               sdk.threw /\ sdk.message.prefix = "API Error: "
        /\ (sdk.error = ErrorUndefined /\ sdk.data \in {"undefined", "null"}) =>
               sdk.threw /\ sdk.message = [prefix |-> "API Error: ", detail |-> "No data returned"]
        /\ (sdk.error = ErrorUndefined /\ sdk.data = "value") =>
               ~sdk.threw /\ sdk.unchanged

C15_Witness ==
    /\ sdk.settled = "returned"
    /\ sdk.error = ErrorBody
    /\ sdk.data = "value"
    /\ sdk.threw
    /\ \E o \in Ops : pc[o] = "rejected" /\ failCount[o] >= 2

\* C16: a sweep asks for the pages in the order 1, 2, 3, ... and skips none:
\* the pages asked for so far are 1 .. currentPage (or 1 .. currentPage - 1
\* before the first call for currentPage), every task of the sweep, a retry
\* too, asks for currentPage, the pages before it have each been served, in
\* order, and a step asks for a new page p + 1 only when p was the last page
\* asked for and has been served.
C16_PagesInOrder ==
    /\ [](\A o \in Ops :
            Sweeping(o) =>
                /\ requested[o] \in {1 .. currentPage[o], 1 .. (currentPage[o] - 1)}
                /\ \A t \in TasksOf(o) : t.page = currentPage[o]
                /\ Len(fetched[o]) \in {currentPage[o] - 1, currentPage[o]}
                /\ \A i \in 1 .. Len(fetched[o]) : fetched[o][i].page = i)
    /\ [][\A o \in Ops :
            (mode'[o] = "sweep" /\ requested'[o] # requested[o]) =>
                /\ requested'[o] = requested[o] \cup {Cardinality(requested[o]) + 1}
                /\ Len(fetched[o]) = Cardinality(requested[o])]_vars

C16_Witness ==
    \E o \in Ops :
        /\ Sweeping(o)
        /\ currentPage[o] = 3
        /\ requested[o] = 1 .. 3
        /\ attempt[o] >= 1
        /\ \E t \in InFlight(queue) : t.op = o /\ t.page = 3 /\ t.attempt = attempt[o]

\* C17: every page of a sweep has the whole retry budget: the attempt counter
\* is back at 0 when a page is first asked for, it counts the failures of the
\* current page only, a page is never called more than maxRetries + 1 times,
\* and a sweep is rejected only when its current page has failed
\* maxRetries + 1 times, whatever the pages before it took.
C17_BudgetPerPage ==
    /\ [](\A o \in Ops :
            (Sweeping(o) /\ options.maxRetries >= 0) =>
                /\ calls[o] <= options.maxRetries + 1
                /\ pc[o] \in {"await", "pagedelay", "resolved"} => attempt[o] = failCount[o]
                /\ pc[o] = "backoff" => attempt[o] = failCount[o] - 1
                /\ pc[o] = "rejected" =>
                       calls[o] = options.maxRetries + 1 /\ failCount[o] = options.maxRetries + 1)
    /\ [][\A o \in Ops :
            currentPage'[o] # currentPage[o] =>
                attempt'[o] = 0 /\ calls'[o] <= 1 /\ failCount'[o] = 0]_vars

C17_Witness ==
    \E o \in Ops :
        /\ Sweeping(o)
        /\ spent[o]
        /\ currentPage[o] >= 2
        /\ options.maxRetries = MaxRetriesBound
        /\ pc[o] = "rejected"
        /\ calls[o] = MaxRetriesBound + 1

\* C20: the wait of a retry (attempt > 0) runs inside the queued task, right
\* before its call: a task that waits is a retry and holds the only slot; the
\* call of a retry is made by the firing of its own timer and by nothing else;
\* from the step a retry task takes the slot to the step its call settles no
\* other task starts; and a first attempt (attempt = 0) never waits inside the
\* queue: its call is made in the step that starts it.
C20_DelayInsideTask ==
    /\ [](\A t \in queue.running :
            /\ t.phase = "delay" => t.attempt > 0 /\ queue.running = {t}
            /\ t.attempt = 0 => t.phase = "call"
            /\ t.attempt > 0 => queue.running = {t})
    /\ [][\A t \in queue.running :
            t.attempt > 0 =>
                /\ queue'.running \in {{t}, {[t EXCEPT !.phase = "call"]}} =>
                       Len(queue'.pending) >= Len(queue.pending)
                /\ (t.phase = "delay" /\ t \notin queue'.running) =>
                       queue'.running = {[t EXCEPT !.phase = "call"]}
                /\ (t.phase = "call" /\ t \notin queue'.running) =>
                       failCount'[t.op] = failCount[t.op] + 1
                           \/ Len(fetched'[t.op]) = Len(fetched[t.op]) + 1]_vars

C20_Witness ==
    \E t \in queue.running :
        /\ t.attempt > 0
        /\ t.phase = "delay"
        /\ Len(queue.pending) >= 1
        /\ queue.pending[1].attempt = 0
        /\ startedOn = "add"

\* C30: an operation that has settled (resolved or rejected) has no task in the
\* queue, pending or running, and a step that settles an operation removes its
\* task from the queue in that same step; so whatever the queue still holds
\* belongs to operations that are not finished.
C30_NoWorkLeftBehind ==
    /\ [](\A o \in Ops : pc[o] \in {"resolved", "rejected"} => TasksOf(o) = {})
    /\ [][\A o \in Ops :
            (pc[o] = "await" /\ pc'[o] \in {"resolved", "rejected"}) =>
                /\ \E t \in queue.running : t.op = o /\ t \notin queue'.running
                /\ \A t \in queue'.running : t.op # o
                /\ \A i \in 1 .. Len(queue'.pending) : queue'.pending[i].op # o]_vars

C30_Witness ==
    \E o \in Ops, b \in Ops :
        /\ pc[o] = "rejected"
        /\ failCount[o] >= 1
        /\ Sweeping(b)
        /\ Len(fetched[b]) >= 1
        /\ Running(b)
        /\ TasksOf(o) = {}

\* C24: in a sweep, a served page whose data is absent or is not an array is
\* the last one served: the sweep is resolved with it, no later page was asked
\* for, the operation never stands in the delay between pages after it, and the
\* result's data is the concatenation of the preceding pages' items, the empty
\* list when the page was page 1.
C24_NonArrayEndsSweep ==
    \A o \in Ops :
        Sweeping(o) =>
            LET n == Len(fetched[o]) IN
            \A i \in 1 .. n :
                ~IsArray(fetched[o][i]) =>
                    /\ i = n
                    /\ pc[o] = "resolved"
                    /\ currentPage[o] = i
                    /\ requested[o] = 1 .. i
                    /\ result[o].status = "resolved"
                    /\ result[o].value.data = ArrayData(Flatten(SubSeq(fetched[o], 1, i - 1)))
                    /\ i = 1 => result[o].value.data.items = <<>>

C24_Witness ==
    \E o \in Ops :
        /\ Sweeping(o)
        /\ pc[o] = "resolved"
        /\ Len(fetched[o]) = 2
        /\ SizeOf(fetched[o][1]) = MaxSize
        /\ fetched[o][2].data = AbsentData
        /\ result[o].value.data = ArrayData(PageItems(1, MaxSize))

\* C27: in a sweep the accumulator holds, at every moment, the items of the
\* pages served so far, each page's items once and in the order served; a step
\* in which an attempt fails leaves the accumulator as it was, and the step
\* that serves a page appends that page's items once; so the result of a
\* completed sweep holds each served page's items exactly once, whether the
\* page was served at its first attempt or at a retry.
C27_EachPageOnce ==
    /\ [](\A o \in Ops :
            Sweeping(o) =>
                /\ allData[o] = Flatten(fetched[o])
                /\ Len(allData[o]) = SumSizes(fetched[o])
                /\ \A i \in 1 .. Len(fetched[o]) :
                       \A k \in 1 .. SizeOf(fetched[o][i]) :
                           Cardinality({j \in 1 .. Len(allData[o]) :
                                           allData[o][j] = Item(i, k)}) = 1
                /\ pc[o] = "resolved" => result[o].value.data.items = allData[o])
    /\ [][\A o \in Ops :
            Sweeping(o) =>
                /\ failCount'[o] = failCount[o] + 1 => allData'[o] = allData[o]
                /\ Len(fetched'[o]) = Len(fetched[o]) + 1 =>
                       allData'[o] = allData[o] \o fetched'[o][Len(fetched'[o])].data.items
                /\ fetched'[o] = fetched[o] => allData'[o] = allData[o]]_vars

C27_Witness ==
    \E o \in Ops :
        /\ Sweeping(o)
        /\ pc[o] = "resolved"
        /\ options.maxRetries >= 1
        /\ spent[o]
        /\ Len(fetched[o]) >= 2
        /\ SizeOf(fetched[o][1]) = MaxSize
        /\ SizeOf(fetched[o][2]) >= 1
        /\ Len(result[o].value.data.items) = MaxSize + SizeOf(fetched[o][2])

C22_DiagnosticPerRetry ==
    /\ [](\A o \in Ops :
            /\ \A k \in 1 .. Len(diagnostics[o]) :
                   diagnostics[o][k] = [attempt |-> k, of |-> options.maxRetries + 1]
            /\ pc[o] = "backoff" => Len(diagnostics[o]) = failCount[o]
            /\ Exhausted(o) =>
                   /\ failCount[o] = options.maxRetries + 1
                   /\ Len(diagnostics[o]) = options.maxRetries
            /\ (Returned(o) /\ failCount[o] = 0) => diagnostics[o] = <<>>)
    /\ [][\A o \in Ops :
            /\ (failCount'[o] = failCount[o] + 1 /\ attempt[o] < options.maxRetries) =>
                   /\ diagnostics'[o] =
                          Append(diagnostics[o],
                                 [attempt |-> attempt[o] + 1, of |-> options.maxRetries + 1])
                   /\ pc'[o] = "backoff"
            /\ (failCount'[o] = failCount[o] + 1 /\ attempt[o] >= options.maxRetries) =>
                   /\ diagnostics'[o] = diagnostics[o]
                   /\ pc'[o] = "rejected"
            /\ failCount'[o] # failCount[o] + 1 =>
                   diagnostics'[o] \in {diagnostics[o], <<>>}
            /\ (pc[o] = "backoff" /\ pc'[o] # "backoff") =>
                   /\ waits'[o].outside = waits[o].outside + 1
                   /\ attempt'[o] = attempt[o] + 1
                   /\ pc'[o] = "await"]_vars

C22_Witness ==
    \E o \in Ops :
        /\ Exhausted(o)
        /\ options.maxRetries = MaxRetriesBound
        /\ Len(diagnostics[o]) = MaxRetriesBound
        /\ diagnostics[o][1] = [attempt |-> 1, of |-> MaxRetriesBound + 1]
        /\ waits[o].outside = MaxRetriesBound

\* C26: within one executeWithRetry, when the call of attempt a is made,
\* exactly a waits outside the queue and a waits inside a queued task have
\* elapsed, so two waits separate any two consecutive calls: the first while
\* the operation holds no task in the queue, the second while its retry task
\* holds the only slot; the waits alternate, outside first; an invocation that
\* failed at all maxRetries + 1 attempts has waited 2 * maxRetries times.
C26_TwoWaitsBetweenCalls ==
    /\ [](\A t \in queue.running :
            /\ t.phase = "call" =>
                   waits[t.op] = [outside |-> t.attempt, inside |-> t.attempt]
            /\ t.phase = "delay" =>
                   /\ waits[t.op] = [outside |-> t.attempt, inside |-> t.attempt - 1]
                   /\ queue.running = {t})
    /\ [](\A o \in Ops :
            /\ pc[o] = "backoff" =>
                   /\ TasksOf(o) = {}
                   /\ waits[o] = [outside |-> failCount[o] - 1, inside |-> failCount[o] - 1]
            /\ Exhausted(o) =>
                   waits[o].outside + waits[o].inside = 2 * options.maxRetries)
    /\ [][\A o \in Ops :
            /\ waits'[o].outside = waits[o].outside + 1 =>
                   /\ pc[o] = "backoff"
                   /\ waits[o].inside = waits[o].outside
                   /\ calls'[o] = calls[o]
            /\ waits'[o].inside = waits[o].inside + 1 =>
                   /\ \E t \in queue.running : t.op = o /\ t.phase = "delay"
                   /\ waits[o].outside = waits[o].inside + 1
                   /\ calls'[o] = calls[o] + 1]_vars

C26_Witness ==
    \E o \in Ops :
        /\ Exhausted(o)
        /\ options.maxRetries = MaxRetriesBound
        /\ calls[o] = MaxRetriesBound + 1
        /\ waits[o] = [outside |-> MaxRetriesBound, inside |-> MaxRetriesBound]
        /\ \E b \in Ops \ {o} : pc[b] # "idle"

\* C23: in a sweep one delay between pages has elapsed for every page left
\* behind (pageDelays = currentPage - 1); the operation stands in that delay
\* only after a page that is an array of at least limit items; the step that
\* ends the delay starts the next page's first attempt; a page that ends the
\* sweep is followed by no delay. So a sweep resolved after P pages has waited
\* exactly P - 1 delays between pages.
C23_DelayBetweenPages ==
    /\ [](\A o \in Ops :
            Sweeping(o) =>
                LET n == Len(fetched[o]) IN
                /\ pageDelays[o] = currentPage[o] - 1
                /\ pc[o] = "pagedelay" =>
                       /\ n = currentPage[o]
                       /\ IsArray(fetched[o][n])
                       /\ SizeOf(fetched[o][n]) >= limit[o][1]
                /\ \A i \in 1 .. n - 1 :
                       IsArray(fetched[o][i]) /\ SizeOf(fetched[o][i]) >= limit[o][1]
                /\ pc[o] = "resolved" => n >= 1 /\ pageDelays[o] = n - 1
                /\ pc[o] \in {"await", "backoff", "rejected"} => pageDelays[o] = n)
    /\ [][\A o \in Ops :
            /\ pageDelays'[o] # pageDelays[o] =>
                   /\ pageDelays'[o] = pageDelays[o] + 1
                   /\ pc[o] = "pagedelay"
                   /\ pc'[o] = "await"
                   /\ attempt'[o] = 0
                   /\ currentPage'[o] = currentPage[o] + 1
                   /\ \E t \in TasksOf(o)' : t.page = currentPage'[o] /\ t.attempt = 0
            /\ (pc[o] = "pagedelay" /\ pc'[o] # "pagedelay") =>
                   pageDelays'[o] = pageDelays[o] + 1
            /\ pc[o] = "resolved" => pc'[o] = "resolved" /\ pageDelays'[o] = pageDelays[o]]_vars

C23_Witness ==
    \E o \in Ops :
        /\ Sweeping(o)
        /\ pc[o] = "resolved"
        /\ Len(fetched[o]) = 3
        /\ pageDelays[o] = 2
        /\ limit[o] = <<MaxSize>>
        /\ SizeOf(fetched[o][3]) < MaxSize

\* C28 (as stated): the k-th page served in a sweep was requested as page k,
\* whether or not --page was given, and no record occurs twice in what the
\* sweep has accumulated.
C28_KthFetchRequestsPageK ==
    \A o \in Ops :
        Sweeping(o) =>
            /\ \A k \in 1 .. Len(fetched[o]) : fetched[o][k].page = k
            /\ \A i, j \in 1 .. Len(allData[o]) : allData[o][i] = allData[o][j] => i = j

\* C25: a call in flight ends only by settling: in every step in which it
\* does not settle (an operation being invoked or any timer firing) it stays
\* the one running task, no call is started, the tasks that wait keep waiting
\* in their order and their operations stay suspended, and the operation
\* whose call it is stays suspended too. So while a call never settles no
\* waiting or later-enqueued attempt starts and no waiting operation completes.
C25_NoDeadline ==
    /\ [](\A t \in InFlight(queue) : pc[t.op] = "await" /\ queue.running = {t})
    /\ [][\A t \in InFlight(queue) :
            (failCount'[t.op] = failCount[t.op] /\ fetched'[t.op] = fetched[t.op]) =>
                /\ queue'.running = {t}
                /\ pc'[t.op] = "await"
                /\ result'[t.op] = result[t.op]
                /\ \A o \in Ops : calls'[o] <= calls[o]
                /\ Len(queue'.pending) >= Len(queue.pending)
                /\ SubSeq(queue'.pending, 1, Len(queue.pending)) = queue.pending
                /\ \A o \in Ops : Waiting(o) => pc'[o] = "await" /\ result'[o] = Pending]_vars

C25_Witness ==
    \E t \in InFlight(queue) :
        /\ t.attempt = 0
        /\ startedOn = "rejection"
        /\ Len(queue.pending) = 1
        /\ queue.pending[1].attempt > 0
        /\ waits[queue.pending[1].op].outside >= 1
        /\ pc[queue.pending[1].op] = "await"

\* C29: a sweep is resolved only with a last page that is no array or an array
\* of fewer than limit items, and is rejected only when executeWithRetry has
\* run out of attempts on its current page; conversely each of these events
\* settles the sweep in the step it occurs. What a page reports as total_pages
\* plays no part, and nothing else stops a sweep: if every call settles and
\* every timer fires, a sweep either settles or is still asking for pages at
\* the last page explored.
C29_ShortPage(o) ==
    /\ fetched[o] # <<>>
    /\ IsArray(fetched[o][Len(fetched[o])])
    /\ SizeOf(fetched[o][Len(fetched[o])]) < limit[o][1]
C29_NoArray(o) ==
    /\ fetched[o] # <<>>
    /\ ~IsArray(fetched[o][Len(fetched[o])])
C29_OutOfAttempts(o) ==
    /\ attempt[o] > options.maxRetries
    /\ options.maxRetries >= 0 => failCount[o] = options.maxRetries + 1
    /\ Len(fetched[o]) = currentPage[o] - 1

C29_SweepEndings ==
    /\ [](\A o \in Ops :
            Sweeping(o) =>
                /\ pc[o] = "resolved" <=> (C29_ShortPage(o) \/ C29_NoArray(o))
                /\ pc[o] = "rejected" <=> C29_OutOfAttempts(o)
                /\ (pc[o] = "pagedelay" /\ currentPage[o] < MaxPages) => ENABLED PageDelayFires(o))
    /\ (\E o \in Ops : Sweeping(o)) ~>
           (\A o \in Ops :
               Sweeping(o) =>
                   \/ pc[o] \in {"resolved", "rejected"}
                   \/ pc[o] = "pagedelay" /\ currentPage[o] = MaxPages)

C29_Witness ==
    \E o \in Ops :
        /\ Sweeping(o)
        /\ pc[o] = "pagedelay"
        /\ Len(fetched[o]) = 2
        /\ lastServed[o].pagination = [current_page |-> 2, total_pages |-> 1, total_results |-> 0]
        /\ limit[o] = <<1>>
====
